---- MODULE Spec2Model ----
(***************************************************************************)
(* The NSE accumulation scanner (app.py): a Streamlit script that is run   *)
(* top to bottom on every user interaction.  One run loads the first CSV   *)
(* of the working directory, validates and coerces it, applies four        *)
(* filters, scores, sorts and presents the surviving rows.                 *)
(*                                                                         *)
(* Numbers are exact rationals n/d extended with the IEEE specials NaN,    *)
(* +inf and -inf that pandas produces for a zero divisor; binary rounding  *)
(* of float64 is not modelled.                                             *)
(***************************************************************************)
EXTENDS Integers, Sequences, FiniteSets, TLC

\* ------------------------------------------------------------------------
\* Bounds of the model
\* ------------------------------------------------------------------------

\* the longest CSV body (data rows) of an input file
MaxRows == 2

\* ------------------------------------------------------------------------
\* Values: what a cell of a pandas frame can hold
\* ------------------------------------------------------------------------

\* a finite number n/d (d > 0, lowest terms), NaN (also pandas' "missing"),
\* a signed infinity, a string, or a raised exception
Val(k, n, d, s) == [k |-> k, n |-> n, d |-> d, s |-> s]

NaN == Val("nan", 0, 1, <<>>)

Inf(sign) == Val("inf", sign, 1, <<>>)

Str(chars) == Val("str", 0, 1, chars)

Raised == Val("err", 0, 1, <<>>)

Abs(x) == IF x < 0 THEN -x ELSE x

Sign(x) == IF x < 0 THEN -1 ELSE IF x > 0 THEN 1 ELSE 0

RECURSIVE Gcd(_, _)
Gcd(a, b) == IF b = 0 THEN a ELSE Gcd(b, a % b)

Fin(n, d) ==
    LET g == Gcd(Abs(n), Abs(d))
        s == IF d < 0 THEN -1 ELSE 1
    IN  Val("fin", (s * n) \div g, (s * d) \div g, <<>>)

Num(n) == Fin(n, 1)

IsFin(a) == a.k = "fin"

IsNaN(a) == a.k = "nan"

IsErr(a) == a.k = "err"

\* the sign of a number that is not NaN
SignOf(a) == IF a.k = "inf" THEN a.n ELSE Sign(a.n)

\* float subtraction
Sub(a, b) ==
    IF IsErr(a) \/ IsErr(b) THEN Raised
    ELSE IF IsNaN(a) \/ IsNaN(b) THEN NaN
    ELSE IF IsFin(a) /\ IsFin(b) THEN Fin(a.n * b.d - b.n * a.d, a.d * b.d)
    ELSE IF IsFin(a) THEN Inf(-b.n)
    ELSE IF IsFin(b) THEN a
    ELSE IF a.n = b.n THEN NaN ELSE a

\* float addition
Add(a, b) ==
    IF IsErr(a) \/ IsErr(b) THEN Raised
    ELSE IF IsNaN(a) \/ IsNaN(b) THEN NaN
    ELSE IF IsFin(a) /\ IsFin(b) THEN Fin(a.n * b.d + b.n * a.d, a.d * b.d)
    ELSE IF IsFin(a) THEN b
    ELSE IF IsFin(b) THEN a
    ELSE IF a.n = b.n THEN a ELSE NaN

\* float multiplication
Mul(a, b) ==
    IF IsErr(a) \/ IsErr(b) THEN Raised
    ELSE IF IsNaN(a) \/ IsNaN(b) THEN NaN
    ELSE IF IsFin(a) /\ IsFin(b) THEN Fin(a.n * b.n, a.d * b.d)
    ELSE IF SignOf(a) * SignOf(b) = 0 THEN NaN
    ELSE Inf(SignOf(a) * SignOf(b))

\* a Python-level division, which raises ZeroDivisionError on a zero divisor
DivRaising(a, b) ==
    IF IsErr(a) \/ IsErr(b) THEN Raised
    ELSE IF IsNaN(a) \/ IsNaN(b) THEN NaN
    ELSE IF IsFin(b) /\ b.n = 0 THEN Raised
    ELSE IF IsFin(a) /\ IsFin(b) THEN Fin(a.n * b.d, a.d * b.n)
    ELSE IF IsFin(a) THEN Num(0)
    ELSE IF IsFin(b) THEN Inf(SignOf(a) * SignOf(b))
    ELSE NaN

\* the true division of two pandas Series (numpy): x/0 is +inf or -inf,
\* 0/0 is NaN, and nothing is raised
Div(a, b) ==
    IF IsErr(a) \/ IsErr(b) THEN Raised
    ELSE IF IsNaN(a) \/ IsNaN(b) THEN NaN
    ELSE IF IsFin(b) /\ b.n = 0
         THEN IF SignOf(a) = 0 THEN NaN ELSE Inf(SignOf(a))
    ELSE IF IsFin(a) /\ IsFin(b) THEN Fin(a.n * b.d, a.d * b.n)
    ELSE IF IsFin(a) THEN Num(0)
    ELSE IF IsFin(b) THEN Inf(SignOf(a) * SignOf(b))
    ELSE NaN

\* a < b on floats: False whenever an operand is NaN
Lt(a, b) ==
    IF ~(a.k \in {"fin", "inf"}) \/ ~(b.k \in {"fin", "inf"}) THEN FALSE
    ELSE IF IsFin(a) /\ IsFin(b) THEN a.n * b.d < b.n * a.d
    ELSE IF IsFin(a) THEN b.n > 0
    ELSE IF IsFin(b) THEN a.n < 0
    ELSE a.n < b.n

Gt(a, b) == Lt(b, a)

\* a <= b on floats: False whenever an operand is NaN
Le(a, b) ==
    IF ~(a.k \in {"fin", "inf"}) \/ ~(b.k \in {"fin", "inf"}) THEN FALSE
    ELSE ~Lt(b, a)

\* Python's min(a, b): b if b < a, else a
PyMin(a, b) == IF Lt(b, a) THEN b ELSE a

\* Python's round(x, ndigits): to the nearest multiple of 10^-ndigits, a
\* half to the even one; NaN and the infinities are returned as they are
RECURSIVE Pow10(_)
Pow10(e) == IF e = 0 THEN 1 ELSE 10 * Pow10(e - 1)

Round(x, ndigits) ==
    IF ~IsFin(x) THEN x
    ELSE LET p == Pow10(ndigits)
             q == (x.n * p) \div x.d
             r == (x.n * p) % x.d
         IN  IF 2 * r > x.d \/ (2 * r = x.d /\ q % 2 = 1)
             THEN Fin(q + 1, p)
             ELSE Fin(q, p)

\* ------------------------------------------------------------------------
\* Text: a string is the sequence of its characters
\* ------------------------------------------------------------------------

LowerLetters ==
    <<"a", "b", "c", "d", "e", "f", "g", "h", "i", "j", "k", "l", "m",
      "n", "o", "p", "q", "r", "s", "t", "u", "v", "w", "x", "y", "z">>

UpperLetters ==
    <<"A", "B", "C", "D", "E", "F", "G", "H", "I", "J", "K", "L", "M",
      "N", "O", "P", "Q", "R", "S", "T", "U", "V", "W", "X", "Y", "Z">>

Whitespace == {" ", "\t"}

Digits == <<"0", "1", "2", "3", "4", "5", "6", "7", "8", "9">>

\* the first position of x in the sequence s, 0 if there is none
RECURSIVE PosFrom(_, _, _)
PosFrom(s, x, i) ==
    IF i > Len(s) THEN 0 ELSE IF s[i] = x THEN i ELSE PosFrom(s, x, i + 1)

Pos(s, x) == PosFrom(s, x, 1)

Contains(s, x) == Pos(s, x) # 0

\* the upper-case letter of each lower-case letter
UpperOf == [c \in {LowerLetters[i] : i \in 1..26} |-> UpperLetters[Pos(LowerLetters, c)]]

\* str.upper on one character
UpperChar(c) == IF c \in DOMAIN UpperOf THEN UpperOf[c] ELSE c

\* str.upper
Upper(s) == [i \in 1..Len(s) |-> UpperChar(s[i])]

RECURSIVE LStrip(_)
LStrip(s) ==
    IF s # <<>> /\ Head(s) \in Whitespace THEN LStrip(Tail(s)) ELSE s

RECURSIVE RStrip(_)
RStrip(s) ==
    IF s # <<>> /\ s[Len(s)] \in Whitespace
    THEN RStrip(SubSeq(s, 1, Len(s) - 1))
    ELSE s

\* str.strip
Strip(s) == RStrip(LStrip(s))

\* str.endswith
EndsWith(s, suffix) ==
    /\ Len(s) >= Len(suffix)
    /\ SubSeq(s, Len(s) - Len(suffix) + 1, Len(s)) = suffix

\* the value of each decimal digit
DigitOf == [c \in {Digits[i] : i \in 1..10} |-> Pos(Digits, c) - 1]

\* the value of a run of decimal digits, -1 if a character is no digit
RECURSIVE DigitsValue(_, _)
DigitsValue(s, acc) ==
    IF s = <<>> THEN acc
    ELSE IF Head(s) \notin DOMAIN DigitOf THEN -1
    ELSE DigitsValue(Tail(s), 10 * acc + DigitOf[Head(s)])

\* the number a text spells ([-]digits[.digits]), NaN if it spells none:
\* what pd.to_numeric(errors="coerce") makes of one string
ParseNumber(s) ==
    LET neg  == s # <<>> /\ Head(s) = "-"
        body == IF neg THEN Tail(s) ELSE s
        dot  == Pos(body, ".")
        ip   == IF dot = 0 THEN body ELSE SubSeq(body, 1, dot - 1)
        fp   == IF dot = 0 THEN <<>> ELSE SubSeq(body, dot + 1, Len(body))
        v    == DigitsValue(ip \o fp, 0)
    IN  IF ip \o fp = <<>> \/ v < 0 THEN NaN
        ELSE Fin(IF neg THEN -v ELSE v, Pow10(Len(fp)))

\* ------------------------------------------------------------------------
\* Frames: a pandas DataFrame is its column labels, its index labels and
\* its rows (each a sequence of cells aligned with the columns)
\* ------------------------------------------------------------------------

Frame(columns, index, rows) ==
    [state |-> "frame", columns |-> columns, index |-> index, rows |-> rows]

\* Python's None
None == [state |-> "none", columns |-> <<>>, index |-> <<>>, rows |-> <<>>]

\* an exception raised while the frame was computed
RaisedFrame ==
    [state |-> "raised", columns |-> <<>>, index |-> <<>>, rows |-> <<>>]

IsFrame(df) == df.state = "frame"

\* df[label]: the column as a Series (the sequence of its cells)
Column(df, label) ==
    [i \in 1..Len(df.rows) |-> df.rows[i][Pos(df.columns, label)]]

\* row[label], for a row of df
Cell(df, row, label) == row[Pos(df.columns, label)]

\* the positions of a boolean Series that hold True, in their order
RECURSIVE TruePositions(_, _)
TruePositions(mask, i) ==
    IF i > Len(mask) THEN <<>>
    ELSE (IF mask[i] THEN <<i>> ELSE <<>>) \o TruePositions(mask, i + 1)

\* df.iloc[positions]
Take(df, positions) ==
    Frame(df.columns,
          [j \in 1..Len(positions) |-> df.index[positions[j]]],
          [j \in 1..Len(positions) |-> df.rows[positions[j]]])

\* df[mask]: the rows whose mask is True, in their order, index kept
Select(df, mask) ==
    IF ~IsFrame(df) THEN df ELSE Take(df, TruePositions(mask, 1))

\* df[label] = series: the column is replaced, or appended as the last one;
\* an exception raised while the series was computed ends the statement
SetColumn(df, label, series) ==
    IF ~IsFrame(df) THEN df
    ELSE IF \E i \in 1..Len(series) : IsErr(series[i]) THEN RaisedFrame
    ELSE IF Contains(df.columns, label)
    THEN Frame(df.columns, df.index,
               [i \in 1..Len(df.rows) |->
                   [df.rows[i] EXCEPT ![Pos(df.columns, label)] = series[i]]])
    ELSE Frame(Append(df.columns, label), df.index,
               [i \in 1..Len(df.rows) |-> Append(df.rows[i], series[i])])

\* ------------------------------------------------------------------------
\* The working directory and its CSV files
\* ------------------------------------------------------------------------

\* a CSV file: the fields of its header line and of each data line, as text
CsvFile(header, records) == [header |-> header, records |-> records]

\* an entry of os.listdir(): a file name and what the file holds
Entry(name, body) == [name |-> name, body |-> body]

\* the spellings pd.read_csv takes for a missing value that the input
\* files of this model use (its default na_values hold more)
NaValues == {<<>>, <<"N", "A">>, <<"N", "a", "N">>}

\* the fields of column j of a CSV file that are not missing
PresentFields(file, j) ==
    {file.records[i][j] : i \in {r \in 1..Len(file.records) :
                                    file.records[r][j] \notin NaValues}}

\* pd.read_csv infers a numeric column when every present field is a number
NumericColumn(file, j) ==
    \A f \in PresentFields(file, j) : ~IsNaN(ParseNumber(f))

\* pd.read_csv(file): header labels as written, a RangeIndex from 0, a
\* missing field as NaN, a numeric column as numbers, any other as strings
read_csv(file) ==
    Frame(file.header,
          [i \in 1..Len(file.records) |-> i - 1],
          [i \in 1..Len(file.records) |->
              [j \in 1..Len(file.header) |->
                  LET f == file.records[i][j]
                  IN  IF f \in NaValues THEN NaN
                      ELSE IF NumericColumn(file, j) THEN ParseNumber(f)
                      ELSE Str(f)]])

DotCsv == <<".", "c", "s", "v">>

\* load_csv(): the first entry of the listing whose name ends in ".csv",
\* read; None if there is none
RECURSIVE load_csv(_)
load_csv(listing) ==
    IF listing = <<>> THEN None
    ELSE IF EndsWith(Head(listing).name, DotCsv) THEN read_csv(Head(listing).body)
    ELSE load_csv(Tail(listing))

\* ------------------------------------------------------------------------
\* Validator and Coercer
\* ------------------------------------------------------------------------

SECURITY == <<"S", "E", "C", "U", "R", "I", "T", "Y">>

NET_TRDQTY == <<"N", "E", "T", "_", "T", "R", "D", "Q", "T", "Y">>

CLOSE_PRICE == <<"C", "L", "O", "S", "E", "_", "P", "R", "I", "C", "E">>

HI_52_WK == <<"H", "I", "_", "5", "2", "_", "W", "K">>

LOW_PRICE == <<"L", "O", "W", "_", "P", "R", "I", "C", "E">>

HIGH_PRICE == <<"H", "I", "G", "H", "_", "P", "R", "I", "C", "E">>

TRADES == <<"T", "R", "A", "D", "E", "S">>

\* the derived columns "DIST_52W_%", "DAY_RANGE_%" and "ACCUMULATION_%"
DIST_52W == <<"D", "I", "S", "T", "_", "5", "2", "W", "_", "%">>

DAY_RANGE == <<"D", "A", "Y", "_", "R", "A", "N", "G", "E", "_", "%">>

ACCUMULATION ==
    <<"A", "C", "C", "U", "M", "U", "L", "A", "T", "I", "O", "N", "_", "%">>

\* the required names without the last one
required_cols_short ==
    <<SECURITY, NET_TRDQTY, CLOSE_PRICE, HI_52_WK, LOW_PRICE, HIGH_PRICE>>

required_cols ==
    <<SECURITY, NET_TRDQTY, CLOSE_PRICE, HI_52_WK, LOW_PRICE, HIGH_PRICE, TRADES>>

\* data.columns = data.columns.str.strip().str.upper()
normalize_columns(df) ==
    Frame([j \in 1..Len(df.columns) |-> Upper(Strip(df.columns[j]))],
          df.index, df.rows)

\* some col of required_cols is not in data.columns
missing_required(df) ==
    \E c \in 1..Len(required_cols) : ~Contains(df.columns, required_cols[c])

\* pd.to_numeric(series, errors="coerce"): a string becomes the number it
\* spells or NaN; numbers and NaN stay
to_numeric(series) ==
    [i \in 1..Len(series) |->
        IF series[i].k = "str" THEN ParseNumber(series[i].s) ELSE series[i]]

\* for col in cols: data[col] = pd.to_numeric(data[col], errors="coerce")
\* (data[col] of an absent column raises KeyError)
RECURSIVE coerce_columns(_, _)
coerce_columns(df, cols) ==
    IF cols = <<>> \/ ~IsFrame(df) THEN df
    ELSE IF ~Contains(df.columns, Head(cols)) THEN RaisedFrame
    ELSE coerce_columns(SetColumn(df, Head(cols), to_numeric(Column(df, Head(cols)))),
                        Tail(cols))

\* data.dropna(subset=required_cols): only the required columns looked at
dropna_required(df) ==
    Select(df, [i \in 1..Len(df.rows) |->
                   \A j \in 1..Len(df.columns) :
                       Contains(required_cols, df.columns[j]) => ~IsNaN(df.rows[i][j])])

\* data.dropna(): the rows with no NaN in any column
dropna(df) ==
    Select(df, [i \in 1..Len(df.rows) |->
                   \A j \in 1..Len(df.columns) : ~IsNaN(df.rows[i][j])])

\* lines 43-46: the Coercer
coerce(df) == dropna(coerce_columns(df, Tail(required_cols)))

\* ------------------------------------------------------------------------
\* Filter Chain
\* ------------------------------------------------------------------------

\* every label is a column of df (df[label] raises KeyError otherwise)
HasColumns(df, labels) == \A l \in labels : Contains(df.columns, l)

\* the volume stage with its comparison inverted
volume_filter_inverted(df, minVolume) ==
    IF ~IsFrame(df) THEN df
    ELSE IF ~HasColumns(df, {NET_TRDQTY}) THEN RaisedFrame
    ELSE LET qty == Column(df, NET_TRDQTY)
         IN  Select(df, [i \in 1..Len(qty) |-> ~Gt(qty[i], Num(minVolume * 100000))])

\* line 61: data[data["NET_TRDQTY"] > min_volume * 100000]
volume_filter(df, minVolume) ==
    IF ~IsFrame(df) THEN df
    ELSE IF ~HasColumns(df, {NET_TRDQTY}) THEN RaisedFrame
    ELSE LET qty == Column(df, NET_TRDQTY)
         IN  Select(df, [i \in 1..Len(qty) |-> Gt(qty[i], Num(minVolume * 100000))])

\* lines 64-67: (filtered["HI_52_WK"] - filtered["CLOSE_PRICE"])
\*              / filtered["HI_52_WK"] * 100
dist_52w(df) ==
    LET hi    == Column(df, HI_52_WK)
        close == Column(df, CLOSE_PRICE)
    IN  [i \in 1..Len(hi) |-> Mul(Div(Sub(hi[i], close[i]), hi[i]), Num(100))]

\* the proximity stage with an exclusive upper bound
proximity_filter_exclusive(df, maxDistance) ==
    IF ~IsFrame(df) THEN df
    ELSE IF ~HasColumns(df, {HI_52_WK, CLOSE_PRICE}) THEN RaisedFrame
    ELSE LET with == SetColumn(df, DIST_52W, dist_52w(df))
             dist == Column(with, DIST_52W)
         IN  Select(with, [i \in 1..Len(dist) |->
                              /\ Gt(dist[i], Fin(1, 2))
                              /\ Lt(dist[i], Num(maxDistance))])

\* lines 64-72: the DIST_52W_% column is set, then the rows with
\* 0.5 < DIST_52W_% <= max_distance are kept
proximity_filter(df, maxDistance) ==
    IF ~IsFrame(df) THEN df
    ELSE IF ~HasColumns(df, {HI_52_WK, CLOSE_PRICE}) THEN RaisedFrame
    ELSE LET with == SetColumn(df, DIST_52W, dist_52w(df))
             dist == Column(with, DIST_52W)
         IN  Select(with, [i \in 1..Len(dist) |->
                              /\ Gt(dist[i], Fin(1, 2))
                              /\ Le(dist[i], Num(maxDistance))])

\* line 75: filtered[filtered["TRADES"] > min_trades]
participation_filter(df, minTrades) ==
    IF ~IsFrame(df) THEN df
    ELSE IF ~HasColumns(df, {TRADES}) THEN RaisedFrame
    ELSE LET trades == Column(df, TRADES)
         IN  Select(df, [i \in 1..Len(trades) |-> Gt(trades[i], Num(minTrades))])

\* lines 78-81: (filtered["HIGH_PRICE"] - filtered["LOW_PRICE"])
\*              / filtered["CLOSE_PRICE"] * 100
day_range(df) ==
    LET high  == Column(df, HIGH_PRICE)
        low   == Column(df, LOW_PRICE)
        close == Column(df, CLOSE_PRICE)
    IN  [i \in 1..Len(high) |-> Mul(Div(Sub(high[i], low[i]), close[i]), Num(100))]

\* lines 78-83: the DAY_RANGE_% column is set, then the rows with
\* DAY_RANGE_% < 5 are kept
range_filter(df) ==
    IF ~IsFrame(df) THEN df
    ELSE IF ~HasColumns(df, {HIGH_PRICE, LOW_PRICE, CLOSE_PRICE}) THEN RaisedFrame
    ELSE LET with == SetColumn(df, DAY_RANGE, day_range(df))
             rng  == Column(with, DAY_RANGE)
         IN  Select(with, [i \in 1..Len(rng) |-> Lt(rng[i], Num(5))])

\* ------------------------------------------------------------------------
\* Scorer
\* ------------------------------------------------------------------------

\* the score without the caps on its three parts
calculate_score_unclamped(df, row, maxDistance) ==
    LET volume_score    == Div(Cell(df, row, NET_TRDQTY), Num(10000000))
        trade_score     == Div(Cell(df, row, TRADES), Num(100000))
        proximity_score == Sub(Num(1), Div(Cell(df, row, DIST_52W), Num(maxDistance)))
    IN  Round(Mul(Add(Add(Mul(volume_score, Fin(4, 10)),
                          Mul(trade_score, Fin(3, 10))),
                      Mul(proximity_score, Fin(3, 10))),
                  Num(100)),
              2)

\* the score with the slider's default in place of the current max_distance
calculate_score_default_distance(df, row, maxDistance) ==
    LET volume_score    == PyMin(Div(Cell(df, row, NET_TRDQTY), Num(10000000)), Num(1))
        trade_score     == PyMin(Div(Cell(df, row, TRADES), Num(100000)), Num(1))
        proximity_score ==
            Sub(Num(1), PyMin(Div(Cell(df, row, DIST_52W), Num(6)), Num(1)))
    IN  Round(Mul(Add(Add(Mul(volume_score, Fin(4, 10)),
                          Mul(trade_score, Fin(3, 10))),
                      Mul(proximity_score, Fin(3, 10))),
                  Num(100)),
              2)

\* lines 89-98: calculate_score(row), with the max_distance it reads
calculate_score(df, row, maxDistance) ==
    LET volume_score    == PyMin(Div(Cell(df, row, NET_TRDQTY), Num(10000000)), Num(1))
        trade_score     == PyMin(Div(Cell(df, row, TRADES), Num(100000)), Num(1))
        proximity_score ==
            Sub(Num(1), PyMin(Div(Cell(df, row, DIST_52W), Num(maxDistance)), Num(1)))
    IN  Round(Mul(Add(Add(Mul(volume_score, Fin(4, 10)),
                          Mul(trade_score, Fin(3, 10))),
                      Mul(proximity_score, Fin(3, 10))),
                  Num(100)),
              2)

\* line 100: filtered["ACCUMULATION_%"] = filtered.apply(calculate_score, axis=1)
apply_score(df, maxDistance) ==
    IF ~IsFrame(df) THEN df
    ELSE IF ~HasColumns(df, {NET_TRDQTY, TRADES, DIST_52W}) THEN RaisedFrame
    ELSE SetColumn(df, ACCUMULATION,
                   [i \in 1..Len(df.rows) |->
                       calculate_score(df, df.rows[i], maxDistance)])

\* ------------------------------------------------------------------------
\* Presenter
\* ------------------------------------------------------------------------

\* whether the key x of a later row sorts before the key e of an earlier one
\* in a descending sort that puts NaN last; `ties` is what the sort does
\* with equal keys
GoesBefore(x, e, ties) ==
    IF IsNaN(x) THEN FALSE
    ELSE IF IsNaN(e) THEN TRUE
    ELSE Gt(x, e) \/ (ties = "reversed" /\ ~Lt(x, e))

RECURSIVE InsertPosition(_, _, _, _)
InsertPosition(sorted, p, keys, ties) ==
    IF sorted = <<>> THEN <<p>>
    ELSE IF GoesBefore(keys[p], keys[Head(sorted)], ties) THEN <<p>> \o sorted
    ELSE <<Head(sorted)>> \o InsertPosition(Tail(sorted), p, keys, ties)

\* the positions 1..n of keys in descending order of key
RECURSIVE ArgsortDescending(_, _, _)
ArgsortDescending(keys, n, ties) ==
    IF n = 0 THEN <<>>
    ELSE InsertPosition(ArgsortDescending(keys, n - 1, ties), n, keys, ties)

\* the sort left out: the rows stay in the order the Filter Chain left them
sort_values_skipped(df, by, ties) ==
    IF ~IsFrame(df) THEN df
    ELSE IF ~HasColumns(df, {by}) THEN RaisedFrame
    ELSE df

\* line 102: filtered.sort_values(by=..., ascending=False), whose default
\* kind="quicksort" promises no order among equal keys
sort_values(df, by, ties) ==
    IF ~IsFrame(df) THEN df
    ELSE IF ~HasColumns(df, {by}) THEN RaisedFrame
    ELSE Take(df, ArgsortDescending(Column(df, by), Len(df.rows), ties))

display_cols ==
    <<SECURITY, CLOSE_PRICE, HI_52_WK, DIST_52W, NET_TRDQTY, TRADES, ACCUMULATION>>

\* line 121: filtered[display_cols].reset_index(drop=True)
display_table(df) ==
    Frame(display_cols,
          [i \in 1..Len(df.rows) |-> i - 1],
          [i \in 1..Len(df.rows) |->
              [j \in 1..Len(display_cols) |-> Cell(df, df.rows[i], display_cols[j])]])

\* line 131: filtered.to_csv(index=False): every column, no index; the
\* text is represented by the table it spells
to_csv(df) == Frame(df.columns, <<>>, df.rows)

\* an element a run puts on the page
Element(kind, text, n, frame) ==
    [kind |-> kind, text |-> text, n |-> n, frame |-> frame]

\* st.slider(label, min_value, max_value, value): the widget's value, which
\* is `value` until the user has moved it
slider(widget, min_value, max_value, value) ==
    IF widget.set THEN widget.v ELSE value

ResultsCsv ==
    <<"a", "c", "c", "u", "m", "u", "l", "a", "t", "i", "o", "n", "_",
      "r", "e", "s", "u", "l", "t", "s", ".", "c", "s", "v">>

\* the download saved in the working directory, ahead of the source file
download_button_saving(listing, csv) ==
    <<Entry(ResultsCsv, CsvFile(csv.columns, <<>>))>> \o listing

\* lines 131-137: the CSV text goes to the browser through the download
\* button; the working directory is what it was
download_button(listing, csv) == listing

\* ------------------------------------------------------------------------
\* Inputs: the data lines and headers the input files are made of
\* ------------------------------------------------------------------------

\* the example row: DIST_52W_% 5, DAY_RANGE_% 3.16
FOO ==
    <<<<"F", "O", "O">>,
      <<"3", "0", "0", "0", "0", "0", "0">>,
      <<"9", "5">>,
      <<"1", "0", "0">>,
      <<"9", "3">>,
      <<"9", "6">>,
      <<"1", "5", "0", "0", "0">>,
      <<"E", "Q">>>>

\* another security with FOO's quantities, distance and trades
BAR ==
    <<<<"B", "A", "R">>,
      <<"3", "0", "0", "0", "0", "0", "0">>,
      <<"1", "9", "0">>,
      <<"2", "0", "0">>,
      <<"1", "8", "6">>,
      <<"1", "9", "2">>,
      <<"1", "5", "0", "0", "0">>,
      <<"E", "Q">>>>

\* DIST_52W_% 6; quantity and trades above the scores' caps
BAZ ==
    <<<<"B", "A", "Z">>,
      <<"2", "0", "0", "0", "0", "0", "0", "0">>,
      <<"9", "4">>,
      <<"1", "0", "0">>,
      <<"9", "3">>,
      <<"9", "6">>,
      <<"2", "0", "0", "0", "0", "0">>,
      <<"E", "Q">>>>

\* DIST_52W_% 7/3: a score with no finite decimal expansion
QUX ==
    <<<<"Q", "U", "X">>,
      <<"5", "0", "0", "0", "0", "0", "0">>,
      <<"2", "9", "3">>,
      <<"3", "0", "0">>,
      <<"2", "9", "0">>,
      <<"2", "9", "6">>,
      <<"5", "0", "0", "0", "0">>,
      <<"E", "Q">>>>

\* DAY_RANGE_% exactly 5
WIDE ==
    <<<<"W", "I", "D", "E">>,
      <<"5", "0", "0", "0", "0", "0", "0">>,
      <<"1", "0", "0">>,
      <<"1", "0", "4">>,
      <<"9", "8">>,
      <<"1", "0", "3">>,
      <<"5", "0", "0", "0", "0">>,
      <<"E", "Q">>>>

\* DIST_52W_% exactly 0.5
NEAR ==
    <<<<"N", "E", "A", "R">>,
      <<"5", "0", "0", "0", "0", "0", "0">>,
      <<"1", "9", "9">>,
      <<"2", "0", "0">>,
      <<"1", "9", "7">>,
      <<"2", "0", "0">>,
      <<"5", "0", "0", "0", "0">>,
      <<"E", "Q">>>>

\* HI_52_WK 0: DIST_52W_% is -inf
ZHI ==
    <<<<"Z", "H", "I">>,
      <<"5", "0", "0", "0", "0", "0", "0">>,
      <<"9", "5">>,
      <<"0">>,
      <<"9", "3">>,
      <<"9", "6">>,
      <<"5", "0", "0", "0", "0">>,
      <<"E", "Q">>>>

\* CLOSE_PRICE 0 and HIGH below LOW: DIST_52W_% 100, DAY_RANGE_% -inf
ZCL ==
    <<<<"Z", "C", "L">>,
      <<"5", "0", "0", "0", "0", "0", "0">>,
      <<"0">>,
      <<"1", "0", "0">>,
      <<"9", "6">>,
      <<"9", "3">>,
      <<"5", "0", "0", "0", "0">>,
      <<"E", "Q">>>>

\* HI_52_WK 0 and a negative CLOSE_PRICE: DIST_52W_% +inf
ZNEG ==
    <<<<"Z", "N", "E", "G">>,
      <<"5", "0", "0", "0", "0", "0", "0">>,
      <<"-", "5">>,
      <<"0">>,
      <<"9", "3">>,
      <<"9", "6">>,
      <<"5", "0", "0", "0", "0">>,
      <<"E", "Q">>>>

\* HI_52_WK and CLOSE_PRICE 0: DIST_52W_% is NaN; too few shares and trades
\* for any threshold
ZZ ==
    <<<<"Z", "Z">>,
      <<"1", "0", "0", "0", "0", "0">>,
      <<"0">>,
      <<"0">>,
      <<"9", "3">>,
      <<"9", "6">>,
      <<"5", "0", "0">>,
      <<"E", "Q">>>>

\* FOO's numbers with a TRADES cell that spells no number
DASH ==
    <<<<"D", "A", "S", "H">>,
      <<"3", "0", "0", "0", "0", "0", "0">>,
      <<"9", "5">>,
      <<"1", "0", "0">>,
      <<"9", "3">>,
      <<"9", "6">>,
      <<"-">>,
      <<"E", "Q">>>>

\* FOO's numbers with no SECURITY
ANON ==
    <<<<>>,
      <<"3", "0", "0", "0", "0", "0", "0">>,
      <<"9", "5">>,
      <<"1", "0", "0">>,
      <<"9", "3">>,
      <<"9", "6">>,
      <<"1", "5", "0", "0", "0">>,
      <<"E", "Q">>>>

\* FOO's numbers with the extra column SERIES missing
BARE ==
    <<<<"B", "A", "R", "E">>,
      <<"3", "0", "0", "0", "0", "0", "0">>,
      <<"9", "5">>,
      <<"1", "0", "0">>,
      <<"9", "3">>,
      <<"9", "6">>,
      <<"1", "5", "0", "0", "0">>,
      <<>>>>

\* a header that holds the seven required names once trimmed and uppercased
Header ==
    <<<<"S", "e", "c", "u", "r", "i", "t", "y">>,
      <<" ", "N", "E", "T", "_", "T", "R", "D", "Q", "T", "Y">>,
      <<"c", "l", "o", "s", "e", "_", "p", "r", "i", "c", "e", " ">>,
      <<"H", "I", "_", "5", "2", "_", "W", "K">>,
      <<"L", "O", "W", "_", "P", "R", "I", "C", "E">>,
      <<"H", "I", "G", "H", "_", "P", "R", "I", "C", "E">>,
      <<"T", "r", "a", "d", "e", "s", "\t">>,
      <<"S", "E", "R", "I", "E", "S">>>>

\* a header without TRADES
HeaderNoTrades ==
    <<<<"S", "E", "C", "U", "R", "I", "T", "Y">>,
      <<"N", "E", "T", "_", "T", "R", "D", "Q", "T", "Y">>,
      <<"C", "L", "O", "S", "E", "_", "P", "R", "I", "C", "E">>,
      <<"H", "I", "_", "5", "2", "_", "W", "K">>,
      <<"L", "O", "W", "_", "P", "R", "I", "C", "E">>,
      <<"H", "I", "G", "H", "_", "P", "R", "I", "C", "E">>,
      <<"N", "O", "_", "O", "F", "_", "T", "R", "A", "D", "E", "S">>,
      <<"S", "E", "R", "I", "E", "S">>>>

\* a header whose NET_TRDQTY is spelt with a blank inside
HeaderSplitName ==
    <<<<"S", "E", "C", "U", "R", "I", "T", "Y">>,
      <<"N", "E", "T", " ", "T", "R", "D", "Q", "T", "Y">>,
      <<"C", "L", "O", "S", "E", "_", "P", "R", "I", "C", "E">>,
      <<"H", "I", "_", "5", "2", "_", "W", "K">>,
      <<"L", "O", "W", "_", "P", "R", "I", "C", "E">>,
      <<"H", "I", "G", "H", "_", "P", "R", "I", "C", "E">>,
      <<"T", "R", "A", "D", "E", "S">>,
      <<"S", "E", "R", "I", "E", "S">>>>

\* the data lines of the files of the filter checks
FilterRows == {FOO, BAZ, WIDE, NEAR, ZCL}

\* the data lines of the files of the scoring and sorting checks
ScoreRows == {FOO, BAR, BAZ, QUX}

\* the data lines of the files of the zero-divisor checks
ZeroRows == {FOO, ZHI, ZCL, ZNEG, ZZ}

\* the data lines of the files of the checks over several runs
RunsRows == {FOO, BAR, BAZ}

\* the data lines of the files of the validation and coercion checks
CoerceRows == {FOO, DASH, ANON, BARE}

\* every sequence of at most MaxRows data lines of a pool
Bodies(pool) == UNION {[1..n -> pool] : n \in 0..MaxRows}

AppPy == <<"a", "p", "p", ".", "p", "y">>

DataCsv == <<"b", "h", "a", "v", ".", "c", "s", "v">>

\* a working directory that holds the script and one CSV file
DirWith(file) == <<Entry(AppPy, CsvFile(<<>>, <<>>)), Entry(DataCsv, file)>>

\* a working directory with no CSV file
DirWithout == <<Entry(AppPy, CsvFile(<<>>, <<>>))>>

FilterDirs == {DirWith(CsvFile(Header, b)) : b \in Bodies(FilterRows)}

ScoreDirs == {DirWith(CsvFile(Header, b)) : b \in Bodies(ScoreRows)}

ZeroDirs == {DirWith(CsvFile(Header, b)) : b \in Bodies(ZeroRows)}

RunsDirs == {DirWith(CsvFile(Header, b)) : b \in Bodies(RunsRows)}

CoerceDirs ==
    {DirWithout}
    \cup {DirWith(CsvFile(h, b)) :
             h \in {Header, HeaderNoTrades, HeaderSplitName}, b \in Bodies(CoerceRows)}

\* the values the user moves the sliders to
MinVolumeChoices == {20, 30}

MaxDistanceChoices == {5, 6}

MinTradesChoices == {10000, 15000}

\* ------------------------------------------------------------------------
\* State
\* ------------------------------------------------------------------------

VARIABLES
    cwd,             \* os.listdir() of the working directory, with the files
    quicksort_ties,  \* what this build's quicksort does with equal keys
    session,         \* the slider widgets' state, kept across runs
    rendered,        \* the sliders are on the page
    pc,              \* where the current run of the script is
    data,            \* the script's variable data
    min_volume,      \* the script's variables set from the sliders
    max_distance,
    min_trades,
    filtered,        \* the script's variable filtered
    ui,              \* the elements the current run has put on the page
    earlier          \* some earlier completed run: its thresholds and results

vars ==
    <<cwd, quicksort_ties, session, rendered, pc, data, min_volume,
      max_distance, min_trades, filtered, ui, earlier>>

Unset == [set |-> FALSE, v |-> 0]

NoRun ==
    [set |-> FALSE, min_volume |-> 0, max_distance |-> 0, min_trades |-> 0,
     filtered |-> None, ui |-> <<>>]

\* the completed run the state shows
ThisRun ==
    [set |-> TRUE, min_volume |-> min_volume, max_distance |-> max_distance,
     min_trades |-> min_trades, filtered |-> filtered, ui |-> ui]

\* the script has not run yet: no name is bound and no widget exists
InitWith(dirs) ==
    /\ cwd \in dirs
    /\ quicksort_ties \in {"kept", "reversed"}
    /\ session = [min_volume |-> Unset, max_distance |-> Unset, min_trades |-> Unset]
    /\ rendered = FALSE
    /\ pc = "start"
    /\ data = None
    /\ min_volume = 0
    /\ max_distance = 0
    /\ min_trades = 0
    /\ filtered = None
    /\ ui = <<>>
    /\ earlier = NoRun

Init == InitWith(FilterDirs)

InitScore == InitWith(ScoreDirs)

InitZero == InitWith(ZeroDirs)

InitCoerce == InitWith(CoerceDirs)

InitRuns == InitWith(RunsDirs)

\* ------------------------------------------------------------------------
\* The script, statement by statement
\* ------------------------------------------------------------------------

\* where a statement that produced df leaves the run: an uncaught exception
\* ends it
After(df, next) == IF df.state = "raised" THEN "crashed" ELSE next

\* the page after a statement that produced df
Shown(df) ==
    IF df.state = "raised" THEN Append(ui, Element("exception", "", 0, None)) ELSE ui

\* lines 19-23
Load ==
    /\ pc = "start"
    /\ data' = load_csv(cwd)
    /\ IF data' = None
       THEN /\ ui' = Append(ui, Element("error", "No CSV file found.", 0, None))
            /\ pc' = "stopped"
       ELSE /\ ui' = ui
            /\ pc' = "loaded"
    /\ UNCHANGED <<cwd, quicksort_ties, session, rendered, min_volume,
                   max_distance, min_trades, filtered, earlier>>

\* lines 25-40
Validate ==
    /\ pc = "loaded"
    /\ data' = normalize_columns(data)
    /\ IF missing_required(data')
       THEN /\ ui' = Append(ui, Element("error", "Required columns not found in CSV.",
                                        0, None))
            /\ pc' = "stopped"
       ELSE /\ ui' = ui
            /\ pc' = "validated"
    /\ UNCHANGED <<cwd, quicksort_ties, session, rendered, min_volume,
                   max_distance, min_trades, filtered, earlier>>

\* lines 43-46
Coerce ==
    /\ pc = "validated"
    /\ LET df == coerce(data)
       IN  /\ data' = IF IsFrame(df) THEN df ELSE data
           /\ pc' = After(df, "coerced")
           /\ ui' = Shown(df)
    /\ UNCHANGED <<cwd, quicksort_ties, session, rendered, min_volume,
                   max_distance, min_trades, filtered, earlier>>

\* the state of a widget that holds v
Moved(v) == [set |-> TRUE, v |-> v]

\* lines 52-54: each slider returns its widget's value, which a first call
\* registers as the default
Sliders ==
    /\ pc = "coerced"
    /\ min_volume' = slider(session.min_volume, 1, 500, 20)
    /\ max_distance' = slider(session.max_distance, 2, 15, 6)
    /\ min_trades' = slider(session.min_trades, 1000, 500000, 10000)
    /\ session' = [min_volume |-> Moved(min_volume'),
                   max_distance |-> Moved(max_distance'),
                   min_trades |-> Moved(min_trades')]
    /\ rendered' = TRUE
    /\ pc' = "sliders"
    /\ UNCHANGED <<cwd, quicksort_ties, data, filtered, ui, earlier>>

\* a statement that rebinds filtered to df
Rebind(df, next) ==
    /\ filtered' = IF IsFrame(df) THEN df ELSE filtered
    /\ pc' = After(df, next)
    /\ ui' = Shown(df)
    /\ UNCHANGED <<cwd, quicksort_ties, session, rendered, data, min_volume,
                   max_distance, min_trades, earlier>>

\* line 61
VolumeFilter ==
    /\ pc = "sliders"
    /\ Rebind(volume_filter(data, min_volume), "volume")

\* lines 64-72
ProximityFilter ==
    /\ pc = "volume"
    /\ Rebind(proximity_filter(filtered, max_distance), "proximity")

\* line 75
ParticipationFilter ==
    /\ pc = "proximity"
    /\ Rebind(participation_filter(filtered, min_trades), "participation")

\* lines 78-83
RangeFilter ==
    /\ pc = "participation"
    /\ Rebind(range_filter(filtered), "range")

\* line 100
Score ==
    /\ pc = "range"
    /\ Rebind(apply_score(filtered, max_distance), "scored")

\* line 102
Sort ==
    /\ pc = "scored"
    /\ Rebind(sort_values(filtered, ACCUMULATION, quicksort_ties), "sorted")

\* lines 108-124
Display ==
    /\ pc = "sorted"
    /\ ui' = Append(ui, Element("subheader", "Accumulation Candidates",
                                Len(filtered.rows), None))
             \o (IF Len(filtered.rows) > 0
                 THEN <<Element("dataframe", "", Len(filtered.rows),
                                display_table(filtered))>>
                 ELSE <<Element("warning", "No accumulation setups found.", 0, None)>>)
    /\ pc' = "displayed"
    /\ UNCHANGED <<cwd, quicksort_ties, session, rendered, data, min_volume,
                   max_distance, min_trades, filtered, earlier>>

\* lines 130-137
Download ==
    /\ pc = "displayed"
    /\ IF Len(filtered.rows) > 0
       THEN /\ ui' = Append(ui, Element("download", "accumulation_results.csv",
                                        Len(filtered.rows), to_csv(filtered)))
            /\ cwd' = download_button(cwd, to_csv(filtered))
       ELSE UNCHANGED <<ui, cwd>>
    /\ pc' = "done"
    /\ UNCHANGED <<quicksort_ties, session, rendered, data, min_volume,
                   max_distance, min_trades, filtered, earlier>>

\* ------------------------------------------------------------------------
\* The user
\* ------------------------------------------------------------------------

\* Streamlit acts on a moved slider when the running script next calls into
\* st (or has ended): before lines 5, 52, 108 and 130, and at the end
YieldPoints == {"start", "coerced", "sorted", "displayed", "done"}

\* a slider moved: Streamlit drops the current run and runs the script again
\* from its first line, with a fresh namespace and an empty page.  With
\* `remember`, an observer notes the completed run that is dropped.
Rerun(widgets, remember) ==
    /\ rendered
    /\ pc \in YieldPoints
    /\ session' = widgets
    /\ pc' = "start"
    /\ data' = None
    /\ min_volume' = 0
    /\ max_distance' = 0
    /\ min_trades' = 0
    /\ filtered' = None
    /\ ui' = <<>>
    /\ earlier' = IF remember /\ pc = "done" THEN ThisRun ELSE earlier
    /\ UNCHANGED <<cwd, quicksort_ties, rendered>>

ChangeMinVolume(remember) ==
    \E v \in MinVolumeChoices :
        /\ v # slider(session.min_volume, 1, 500, 20)
        /\ Rerun([session EXCEPT !.min_volume = Moved(v)], remember)

ChangeMaxDistance(remember) ==
    \E v \in MaxDistanceChoices :
        /\ v # slider(session.max_distance, 2, 15, 6)
        /\ Rerun([session EXCEPT !.max_distance = Moved(v)], remember)

ChangeMinTrades(remember) ==
    \E v \in MinTradesChoices :
        /\ v # slider(session.min_trades, 1000, 500000, 10000)
        /\ Rerun([session EXCEPT !.min_trades = Moved(v)], remember)

\* one statement of the script
Step ==
    \/ Load
    \/ Validate
    \/ Coerce
    \/ Sliders
    \/ VolumeFilter
    \/ ProximityFilter
    \/ ParticipationFilter
    \/ RangeFilter
    \/ Score
    \/ Sort
    \/ Display
    \/ Download

Next ==
    \/ Step
    \/ ChangeMinVolume(FALSE)
    \/ ChangeMaxDistance(FALSE)
    \/ ChangeMinTrades(FALSE)

\* the same, watched by an observer who may note a completed run
NextObserved ==
    \/ Step
    \/ \E remember \in BOOLEAN : ChangeMinVolume(remember)
    \/ \E remember \in BOOLEAN : ChangeMaxDistance(remember)
    \/ \E remember \in BOOLEAN : ChangeMinTrades(remember)

\* files of the filter pool
Spec == Init /\ [][Next]_vars

\* files of the scoring and sorting pool
SpecScore == InitScore /\ [][Next]_vars

\* files of the zero-divisor pool
SpecZero == InitZero /\ [][Next]_vars

\* files of the validation and coercion pool
SpecCoerce == InitCoerce /\ [][Next]_vars

\* several runs on one file, an earlier one noted
SpecRuns == InitRuns /\ [][NextObserved]_vars

\* ------------------------------------------------------------------------
\* Properties
\* ------------------------------------------------------------------------

\* the Filter Chain of the current run has run
FilterDone == pc \in {"range", "scored", "sorted", "displayed", "done"}

ScoreDone == pc \in {"scored", "sorted", "displayed", "done"}

SortDone == pc \in {"sorted", "displayed", "done"}

IndexSet(df) == {df.index[i] : i \in 1..Len(df.index)}

NoDuplicateIndex(df) ==
    \A i, j \in 1..Len(df.index) : i # j => df.index[i] # df.index[j]

\* the elements of a kind on the page
Elements(kind) == {i \in 1..Len(ui) : ui[i].kind = kind}

\* DIST_52W_% of a coerced row, from its HI_52_WK and CLOSE_PRICE
DistOf(df, row) ==
    Mul(Div(Sub(Cell(df, row, HI_52_WK), Cell(df, row, CLOSE_PRICE)),
            Cell(df, row, HI_52_WK)),
        Num(100))

\* DAY_RANGE_% of a coerced row
RangeOf(df, row) ==
    Mul(Div(Sub(Cell(df, row, HIGH_PRICE), Cell(df, row, LOW_PRICE)),
            Cell(df, row, CLOSE_PRICE)),
        Num(100))

\* the four conditions of the Filter Chain on a coerced row
Qualifies(row) ==
    /\ Gt(Cell(data, row, NET_TRDQTY), Num(min_volume * 100000))
    /\ Gt(DistOf(data, row), Fin(1, 2))
    /\ Le(DistOf(data, row), Num(max_distance))
    /\ Gt(Cell(data, row, TRADES), Num(min_trades))
    /\ Lt(RangeOf(data, row), Num(5))

QualifyingIndex ==
    {data.index[k] : k \in {r \in 1..Len(data.rows) : Qualifies(data.rows[r])}}

\* C1: once the Filter Chain has run, the output holds exactly the coerced
\* rows that meet all four conditions (quantity above min_volume lakhs,
\* 0.5 < DIST_52W_% <= max_distance, trades above min_trades,
\* DAY_RANGE_% < 5), each once and with its cells as coerced, and the page
\* counts and shows exactly those rows.
C1_FilterMembership ==
    FilterDone =>
        /\ IsFrame(filtered)
        /\ NoDuplicateIndex(filtered)
        /\ IndexSet(filtered) = QualifyingIndex
        /\ \A i \in 1..Len(filtered.rows) : \A k \in 1..Len(data.rows) :
               data.index[k] = filtered.index[i] =>
                   \A c \in 1..Len(data.columns) :
                       Cell(filtered, filtered.rows[i], data.columns[c]) = data.rows[k][c]
        /\ pc \in {"displayed", "done"} =>
               /\ \E e \in Elements("subheader") : ui[e].n = Cardinality(QualifyingIndex)
               /\ \A e \in Elements("dataframe") :
                      Len(ui[e].frame.rows) = Cardinality(QualifyingIndex)
               /\ (QualifyingIndex # {}) = (Elements("dataframe") # {})

\* a finished run that kept a row whose DIST_52W_% equals max_distance and
\* dropped another row
C1_Witness ==
    /\ pc = "done"
    /\ \E i \in 1..Len(filtered.rows) :
           Cell(filtered, filtered.rows[i], DIST_52W) = Num(max_distance)
    /\ Len(filtered.rows) < Len(data.rows)

\* the seven names the header must hold
SevenNames == {SECURITY, NET_TRDQTY, CLOSE_PRICE, HI_52_WK, LOW_PRICE, HIGH_PRICE, TRADES}

\* the six of them that hold numbers
SixNumeric == SevenNames \ {SECURITY}

\* the CSV files of the working directory, in listing order
CsvEntries == SelectSeq(cwd, LAMBDA e : EndsWith(e.name, DotCsv))

\* the file a run reads
TheFile == Head(CsvEntries).body

\* the header of the file as the Validator sees it
TrimmedUpper == [j \in 1..Len(TheFile.header) |-> Upper(Strip(TheFile.header[j]))]

\* there is no CSV file, or a required name is not in its header once
\* trimmed and uppercased
FatalInput ==
    \/ CsvEntries = <<>>
    \/ LET names == {Upper(Strip(TheFile.header[j])) : j \in 1..Len(TheFile.header)}
       IN  \E name \in SevenNames : name \notin names

\* what a run on a fatal input has done so far: nothing after line 40
NothingAfterCheck ==
    /\ pc \in {"start", "loaded", "stopped"}
    /\ pc \in {"start", "loaded"} => ui = <<>>
    /\ pc = "stopped" => Len(ui) = 1 /\ ui[1].kind = "error" /\ ui[1].text # ""
    /\ data \in {None, load_csv(cwd), normalize_columns(load_csv(cwd))}
    /\ filtered = None
    /\ ~rendered
    /\ min_volume = 0 /\ max_distance = 0 /\ min_trades = 0

\* C2: with no CSV file, or with a required column absent after the header
\* is trimmed and uppercased, the run goes no further than line 40 and
\* ends stopped with one error message on the page: its only steps are the
\* load and the stop, the stopped run takes no further step, and nothing is
\* coerced, no slider is read, nothing is filtered, scored, counted, shown
\* or offered for download.
C2_FatalHalts ==
    /\ [](FatalInput => NothingAfterCheck)
    /\ [][/\ pc # "stopped"
          /\ FatalInput =>
                 \/ pc = "start" /\ CsvEntries # <<>> /\ pc' = "loaded"
                 \/ pc' = "stopped" /\ Len(ui') = 1 /\ ui'[1].kind = "error"]_vars

\* a run stopped on a file whose header lacks a required name
C2_Witness ==
    /\ pc = "stopped"
    /\ CsvEntries # <<>>
    /\ FatalInput
    /\ ui[1].text = "Required columns not found in CSV."

\* the text is [-]digits[.digits] with at least one digit
SpellsNumber(f) ==
    LET body == IF f # <<>> /\ Head(f) = "-" THEN Tail(f) ELSE f
        dots == {i \in 1..Len(body) : body[i] = "."}
    IN  /\ Cardinality(dots) <= 1
        /\ \A i \in 1..Len(body) : i \in dots \/ \E d \in 1..10 : Digits[d] = body[i]
        /\ Len(body) > Cardinality(dots)

\* line i of the file has a value in every column, and a number in each of
\* the six numeric required columns
CompleteLine(i) ==
    \A j \in 1..Len(TheFile.header) :
        /\ TheFile.records[i][j] \notin NaValues
        /\ TrimmedUpper[j] \in SixNumeric => SpellsNumber(TheFile.records[i][j])

CoerceDone == pc \in {"coerced", "sliders", "volume", "proximity", "participation"} \/ FilterDone

\* C5: after the Coercer the rows kept are, in file order, exactly the lines
\* with a value in every column (required or not) and a number in each of
\* the six numeric required columns; dropping a line raises nothing and
\* puts no error on the page; every output row has a value in each of the
\* seven required columns.
C5_CoercerKeepsCompleteRows ==
    /\ ~FatalInput => pc \notin {"stopped", "crashed"} /\ Elements("error") = {}
                      /\ Elements("exception") = {}
    /\ CoerceDone =>
           /\ data.index = SelectSeq([i \in 1..Len(TheFile.records) |-> i - 1],
                                     LAMBDA x : CompleteLine(x + 1))
           /\ \A i \in 1..Len(data.rows) : \A j \in 1..Len(data.columns) :
                  ~IsNaN(data.rows[i][j])
    /\ FilterDone =>
           \A i \in 1..Len(filtered.rows) : \A name \in SevenNames :
               /\ Contains(filtered.columns, name)
               /\ ~IsNaN(Cell(filtered, filtered.rows[i], name))

\* a coerced file of two lines of which the second, complete but for the
\* extra column SERIES, was dropped and the first kept
C5_Witness ==
    /\ pc = "coerced"
    /\ Len(TheFile.records) = 2
    /\ data.index = <<0>>
    /\ \A j \in 1..Len(TheFile.header) :
           (TheFile.records[2][j] \in NaValues) = (TrimmedUpper[j] \notin SevenNames)

\* the ACCUMULATION_% of output row i
ScoreAt(df, i) == Cell(df, df.rows[i], ACCUMULATION)

\* C3: every output row's ACCUMULATION_% is a number from 0 to 100,
\* whatever the file and the thresholds.
C3_ScoreBounds ==
    ScoreDone =>
        \A i \in 1..Len(filtered.rows) :
            /\ IsFin(ScoreAt(filtered, i))
            /\ Le(Num(0), ScoreAt(filtered, i))
            /\ Le(ScoreAt(filtered, i), Num(100))

\* a finished run with an output row whose quantity and trades are both
\* above what the caps allow for
C3_Witness ==
    /\ pc = "done"
    /\ \E i \in 1..Len(filtered.rows) :
           /\ Gt(Cell(filtered, filtered.rows[i], NET_TRDQTY), Num(10000000))
           /\ Gt(Cell(filtered, filtered.rows[i], TRADES), Num(100000))
           /\ Gt(ScoreAt(filtered, i), Num(0))

\* round((0.4 * min(q / 10000000, 1) + 0.3 * min(t / 100000, 1)
\*        + 0.3 * (1 - min(dist / max_distance, 1))) * 100, 2) of an output
\* row, its distance taken from HI_52_WK and CLOSE_PRICE
ScoreFormula(df, row) ==
    Round(Mul(Add(Add(Mul(Fin(4, 10),
                          PyMin(Div(Cell(df, row, NET_TRDQTY), Num(10000000)), Num(1))),
                      Mul(Fin(3, 10),
                          PyMin(Div(Cell(df, row, TRADES), Num(100000)), Num(1)))),
                  Mul(Fin(3, 10),
                      Sub(Num(1),
                          PyMin(Div(DistOf(df, row), Num(max_distance)), Num(1))))),
              Num(100)),
          2)

\* the row NET_TRDQTY=3000000, CLOSE_PRICE=95, HI_52_WK=100, LOW_PRICE=93,
\* HIGH_PRICE=96, TRADES=15000
IsExampleRow(df, row) ==
    /\ Cell(df, row, NET_TRDQTY) = Num(3000000)
    /\ Cell(df, row, CLOSE_PRICE) = Num(95)
    /\ Cell(df, row, HI_52_WK) = Num(100)
    /\ Cell(df, row, LOW_PRICE) = Num(93)
    /\ Cell(df, row, HIGH_PRICE) = Num(96)
    /\ Cell(df, row, TRADES) = Num(15000)

DefaultThresholds == min_volume = 20 /\ max_distance = 6 /\ min_trades = 10000

\* C4: every row that survived the Filter Chain carries the ACCUMULATION_%
\* the formula gives with the current run's max_distance, and under the
\* default thresholds (20, 6, 10000) the example row survives and scores
\* 21.5.
C4_ScoreFormula ==
    ScoreDone =>
        /\ \A i \in 1..Len(filtered.rows) :
               ScoreAt(filtered, i) = ScoreFormula(filtered, filtered.rows[i])
        /\ DefaultThresholds =>
               \A k \in 1..Len(data.rows) :
                   IsExampleRow(data, data.rows[k]) =>
                       \E i \in 1..Len(filtered.rows) :
                           /\ filtered.index[i] = data.index[k]
                           /\ ScoreAt(filtered, i) = Fin(43, 2)

\* a finished run under a max_distance moved off its default, in which the
\* example row scores 16.5 and another row something else
C4_Witness ==
    /\ pc = "done"
    /\ max_distance = 5 /\ min_volume = 20 /\ min_trades = 10000
    /\ \E i \in 1..Len(filtered.rows) :
           /\ IsExampleRow(filtered, filtered.rows[i])
           /\ ScoreAt(filtered, i) = Fin(33, 2)
    /\ \E i \in 1..Len(filtered.rows) :
           /\ ~IsExampleRow(filtered, filtered.rows[i])
           /\ ScoreAt(filtered, i) # Fin(33, 2)

\* the rows come in non-increasing order of ACCUMULATION_%
NonIncreasing(df) ==
    \A i, j \in 1..Len(df.rows) : i < j => ~Lt(ScoreAt(df, i), ScoreAt(df, j))

\* rows with equal ACCUMULATION_% come in the order of their lines in the file
TiesInFileOrder(df) ==
    \A i, j \in 1..Len(df.rows) :
        i < j /\ ScoreAt(df, i) = ScoreAt(df, j) => df.index[i] < df.index[j]

\* C7 as stated: the presented rows are in non-increasing order of
\* ACCUMULATION_% and rows with equal ACCUMULATION_% keep the relative order
\* they have in the file.
C7_SortedAndStable ==
    SortDone => NonIncreasing(filtered) /\ TiesInFileOrder(filtered)

\* C7, amended: the presented rows are the scored rows, each once, in
\* non-increasing order of ACCUMULATION_%, on the page as in the download;
\* nothing is promised about the order of rows with equal ACCUMULATION_%.
C7_SortedDescending ==
    SortDone =>
        /\ NonIncreasing(filtered)
        /\ NoDuplicateIndex(filtered)
        /\ IndexSet(filtered) = QualifyingIndex
        /\ \A e \in Elements("dataframe") :
               /\ NonIncreasing(ui[e].frame)
               /\ Column(ui[e].frame, SECURITY) = Column(filtered, SECURITY)
        /\ \A e \in Elements("download") :
               /\ ui[e].frame.rows = filtered.rows
               /\ ui[e].frame.columns = filtered.columns

\* a finished run whose sort moved a later line of the file, with a higher
\* ACCUMULATION_%, before an earlier one
C7_Witness ==
    /\ pc = "done"
    /\ \E i, j \in 1..Len(filtered.rows) :
           /\ i < j
           /\ filtered.index[i] > filtered.index[j]
           /\ Gt(ScoreAt(filtered, i), ScoreAt(filtered, j))

\* stage k of the Filter Chain under the current thresholds
Stage(k, df) ==
    CASE k = 1 -> volume_filter(df, min_volume)
      [] k = 2 -> proximity_filter(df, max_distance)
      [] k = 3 -> participation_filter(df, min_trades)
      [] k = 4 -> range_filter(df)

\* the four stages applied in the given order
Chain(order, df) ==
    Stage(order[4], Stage(order[3], Stage(order[2], Stage(order[1], df))))

\* the 24 orders of the four stages
Orders == {o \in [1..4 -> 1..4] : \A i, j \in 1..4 : i # j => o[i] # o[j]}

\* the rows of a frame, each with its line of the file and its cells by
\* column label
RowSet(df) ==
    {[index |-> df.index[i],
      cells |-> {<<df.columns[j], df.rows[i][j]>> : j \in 1..Len(df.columns)}] :
        i \in 1..Len(df.rows)}

\* a coerced row whose HI_52_WK or CLOSE_PRICE is 0
Degenerate(df, row) ==
    Cell(df, row, HI_52_WK) = Num(0) \/ Cell(df, row, CLOSE_PRICE) = Num(0)

\* C9: on the coerced data of a run and under its thresholds, the four
\* stages applied in any of their 24 orders raise nothing and leave the
\* same set of rows, the one the run itself is left with, also when the
\* data holds rows with HI_52_WK = 0 or CLOSE_PRICE = 0.
C9_StageOrder ==
    pc = "range" =>
        \A o \in Orders :
            /\ IsFrame(Chain(o, data))
            /\ RowSet(Chain(o, data)) = RowSet(filtered)

\* the Filter Chain ended with a row left, on data that holds a row with a
\* zero HI_52_WK or CLOSE_PRICE which only the derived percentages exclude
C9_Witness ==
    /\ pc = "range"
    /\ Len(filtered.rows) > 0
    /\ \E k \in 1..Len(data.rows) :
           /\ Degenerate(data, data.rows[k])
           /\ IsFrame(Stage(3, Stage(1, data)))
           /\ data.index[k] \in IndexSet(Stage(3, Stage(1, data)))

\* the coerced data without its rows with HI_52_WK = 0 or CLOSE_PRICE = 0
WithoutDegenerate(df) ==
    Select(df, [k \in 1..Len(df.rows) |-> ~Degenerate(df, df.rows[k])])

\* what the run computes from df up to its current statement
UpTo(df) ==
    LET chained == Chain(<<1, 2, 3, 4>>, df)
        scored  == apply_score(chained, max_distance)
    IN  IF pc = "range" THEN chained
        ELSE IF pc = "scored" THEN scored
        ELSE sort_values(scored, ACCUMULATION, quicksort_ties)

\* C10: a row with HI_52_WK = 0 or CLOSE_PRICE = 0 raises nothing and puts
\* no error on the page; it fails the proximity comparison and is in no
\* output, so that every output row has HI_52_WK # 0 and CLOSE_PRICE # 0;
\* and the output is, row for row, what the run computes from the data
\* without such rows.
C10_DegenerateRows ==
    /\ pc \notin {"crashed", "stopped"}
    /\ Elements("error") = {} /\ Elements("exception") = {}
    /\ FilterDone =>
           /\ \A k \in 1..Len(data.rows) :
                  Degenerate(data, data.rows[k]) =>
                      /\ ~(/\ Gt(DistOf(data, data.rows[k]), Fin(1, 2))
                           /\ Le(DistOf(data, data.rows[k]), Num(max_distance)))
                      /\ data.index[k] \notin IndexSet(filtered)
           /\ \A i \in 1..Len(filtered.rows) :
                  ~Degenerate(filtered, filtered.rows[i])
           /\ filtered = UpTo(WithoutDegenerate(data))

\* a finished run with output, on data that holds a row with a zero
\* HI_52_WK or CLOSE_PRICE which is above both the volume and the trades
\* threshold
C10_Witness ==
    /\ pc = "done"
    /\ Len(filtered.rows) > 0
    /\ \E k \in 1..Len(data.rows) :
           /\ Degenerate(data, data.rows[k])
           /\ Gt(Cell(data, data.rows[k], NET_TRDQTY), Num(min_volume * 100000))
           /\ Gt(Cell(data, data.rows[k], TRADES), Num(min_trades))

\* the current run is complete and an earlier complete run is noted
TwoRuns == earlier.set /\ pc = "done"

\* the earlier run's thresholds are the current ones but for min_volume
OnlyMinVolumeDiffers ==
    /\ earlier.max_distance = max_distance
    /\ earlier.min_trades = min_trades

OnlyMaxDistanceDiffers ==
    /\ earlier.min_volume = min_volume
    /\ earlier.min_trades = min_trades

OnlyMinTradesDiffers ==
    /\ earlier.min_volume = min_volume
    /\ earlier.max_distance = max_distance

\* the output of the one run is part of the output of the other
Within(a, b) ==
    /\ IndexSet(a) \subseteq IndexSet(b)
    /\ Len(a.rows) <= Len(b.rows)

\* C6: of two runs on one file whose thresholds differ in one parameter
\* only, the run with the higher min_volume, the higher min_trades or the
\* lower max_distance has no row the other has not, and no more rows.
C6_ThresholdMonotone ==
    TwoRuns =>
        /\ OnlyMinVolumeDiffers /\ min_volume >= earlier.min_volume =>
               Within(filtered, earlier.filtered)
        /\ OnlyMinVolumeDiffers /\ min_volume <= earlier.min_volume =>
               Within(earlier.filtered, filtered)
        /\ OnlyMinTradesDiffers /\ min_trades >= earlier.min_trades =>
               Within(filtered, earlier.filtered)
        /\ OnlyMinTradesDiffers /\ min_trades <= earlier.min_trades =>
               Within(earlier.filtered, filtered)
        /\ OnlyMaxDistanceDiffers /\ max_distance >= earlier.max_distance =>
               Within(earlier.filtered, filtered)
        /\ OnlyMaxDistanceDiffers /\ max_distance <= earlier.max_distance =>
               Within(filtered, earlier.filtered)

\* a run that, with min_volume raised and nothing else changed, has lost a
\* row of the earlier run and kept another
C6_Witness ==
    /\ TwoRuns
    /\ OnlyMinVolumeDiffers
    /\ min_volume > earlier.min_volume
    /\ 0 < Len(filtered.rows)
    /\ Len(filtered.rows) < Len(earlier.filtered.rows)

SameThresholds ==
    /\ earlier.min_volume = min_volume
    /\ earlier.max_distance = max_distance
    /\ earlier.min_trades = min_trades

\* C8: whatever runs came before, a complete run under the thresholds of a
\* complete earlier run on the same file has the same output, row for row
\* in order and score, and the same page, and no step of any run changes
\* the working directory or its files.
C8_RunIndependence ==
    /\ [](TwoRuns /\ SameThresholds =>
              /\ filtered = earlier.filtered
              /\ ui = earlier.ui)
    /\ [][cwd' = cwd]_vars

\* a complete run with two rows of equal score that has the thresholds of
\* an earlier complete run, max_distance moved off its default
C8_Witness ==
    /\ TwoRuns
    /\ SameThresholds
    /\ max_distance = 5
    /\ Len(filtered.rows) = 2
    /\ ScoreAt(filtered, 1) = ScoreAt(filtered, 2)

====
